---- MODULE Spec2Model ----
(***************************************************************************)
(* Model of app.py: the YouTube transcript summarizer.                     *)
(*                                                                         *)
(* Strings whose characters matter (URLs, transcript text, formatted       *)
(* output, summary text) are sequences of one-character strings, so that   *)
(* Python's `in`, split, join and f-string formatting are computed as the  *)
(* code computes them.                                                     *)
(***************************************************************************)
EXTENDS Integers, Sequences, FiniteSets, TLC

VARIABLES
    pc,                      \* position of control
    video_url,               \* st.text_input("YouTube Video Link")
    cookies_upload,          \* st.file_uploader(...): TRUE when a file was uploaded
    fallback,                \* fallback argument / fallback_transcription checkbox
    generate_summary_option, \* "Generate AI Summary" checkbox
    custom_prompt,           \* "Custom Summary Prompt" text input
    cookies_file,            \* handler local: name of the temporary cookies file or None
    files,                   \* files present on disk
    video_id,                \* outcome of get_video_id(video_url)
    calls,                   \* external services invoked so far, in order
    gt,                      \* outcome of get_transcript: returned pair or raised error
    transcript_text,         \* handler local
    raw_transcript,          \* handler local
    formatted_transcript,    \* handler local
    requests,                \* prompts sent to client.chat.completions.create
    received,                \* delta.content of the chunks received so far
    summary,                 \* generate_summary local
    summary_placeholder,     \* what summary_placeholder.markdown last displayed
    messages,                \* st.error / st.warning / st.info / st.success outputs
    outcome                  \* how the run (or call) ended

vars == <<pc, video_url, cookies_upload, fallback, generate_summary_option,
          custom_prompt, cookies_file, files, video_id, calls, gt,
          transcript_text, raw_transcript, formatted_transcript, requests,
          received, summary, summary_placeholder, messages, outcome>>

None == "None"

(***************************************************************************)
(* Bounds                                                                  *)
(***************************************************************************)
MaxIdLen == 2
MaxSegs == 2
MaxChunks == 2
MaxRunSegs == 1

(***************************************************************************)
(* Python string primitives                                                *)
(***************************************************************************)

\* sub in s
Contains(s, sub) ==
    \E i \in 1..(Len(s) - Len(sub) + 1) : SubSeq(s, i, i + Len(sub) - 1) = sub

\* s.split(sep), sep non-empty
RECURSIVE Split(_, _)
Split(s, sep) ==
    IF Contains(s, sep)
    THEN LET Hit(i) == SubSeq(s, i, i + Len(sep) - 1) = sep
             i == CHOOSE k \in 1..(Len(s) - Len(sep) + 1) :
                      Hit(k) /\ \A j \in 1..(k - 1) : ~Hit(j)
         IN <<SubSeq(s, 1, i - 1)>> \o Split(SubSeq(s, i + Len(sep), Len(s)), sep)
    ELSE <<s>>

\* sep.join(parts)
RECURSIVE Join(_, _)
Join(sep, parts) ==
    IF Len(parts) = 0 THEN <<>>
    ELSE IF Len(parts) = 1 THEN parts[1]
    ELSE parts[1] \o sep \o Join(sep, Tail(parts))

SLASH == <<"/">>
QMARK == <<"?">>
AMP == <<"&">>
SPACE == <<" ">>
NEWLINE == <<"\n">>
YOUTU_BE == <<"y", "o", "u", "t", "u", ".", "b", "e">>
YOUTUBE_COM == <<"y", "o", "u", "t", "u", "b", "e", ".", "c", "o", "m">>
V_EQ == <<"v", "=">>
LIST_EQ == <<"l", "i", "s", "t", "=">>

(***************************************************************************)
(* get_video_id                                                            *)
(***************************************************************************)
\* kind "return": a string was returned; "none": None was returned (warned when
\* st.warning was called first); "raise": ValueError("Invalid YouTube URL")
Returned(v) == [kind |-> "return", value |-> v, warned |-> FALSE]
ReturnedNone(w) == [kind |-> "none", value |-> <<>>, warned |-> w]
RaisedInvalid == [kind |-> "raise", value |-> <<>>, warned |-> FALSE]
NotCalled == [kind |-> "pending", value |-> <<>>, warned |-> FALSE]

\* variant: the playlist branch hands back the list value
get_video_id_ListAsId(url) ==
    IF Contains(url, YOUTU_BE)
    THEN LET parts == Split(url, SLASH)
         IN Returned(Split(parts[Len(parts)], QMARK)[1])
    ELSE IF Contains(url, YOUTUBE_COM)
    THEN IF Contains(url, V_EQ)
         THEN Returned(Split(Split(url, V_EQ)[2], AMP)[1])
         ELSE IF Contains(url, LIST_EQ)
         THEN Returned(Split(Split(url, LIST_EQ)[2], AMP)[1])
         ELSE ReturnedNone(FALSE)
    ELSE RaisedInvalid

get_video_id(url) ==
    IF Contains(url, YOUTU_BE)
    THEN LET parts == Split(url, SLASH)
         IN Returned(Split(parts[Len(parts)], QMARK)[1])
    ELSE IF Contains(url, YOUTUBE_COM)
    THEN IF Contains(url, V_EQ)
         THEN Returned(Split(Split(url, V_EQ)[2], AMP)[1])
         ELSE IF Contains(url, LIST_EQ)
         THEN ReturnedNone(TRUE)
         ELSE ReturnedNone(FALSE)
    ELSE RaisedInvalid

(***************************************************************************)
(* URLs typed into the "YouTube Video Link" field                          *)
(***************************************************************************)
HTTPS == <<"h", "t", "t", "p", "s", ":", "/", "/">>
VIMEO_COM == <<"v", "i", "m", "e", "o", ".", "c", "o", "m">>
WATCH == <<"w", "a", "t", "c", "h">>
PLAYLIST == <<"p", "l", "a", "y", "l", "i", "s", "t">>
T_1 == <<"t", "=", "1">>
T_FRAC == <<"t", "=", "1", "/", "2">>
LIST_PL == LIST_EQ \o <<"P", "L">>

IdChars == {"a", "b"}

SeqsUpTo(S, n) == UNION {[1..k -> S] : k \in 0..n}

Ids == SeqsUpTo(IdChars, MaxIdLen)

Hosts == {YOUTU_BE, YOUTUBE_COM, VIMEO_COM}

Paths == Ids \cup {WATCH, PLAYLIST}

\* query strings, without the leading "?"
QueryStrings ==
    {T_1, T_FRAC, LIST_PL}
        \cup {V_EQ \o id \o tail : id \in Ids, tail \in {<<>>, AMP \o T_1}}
        \cup {LIST_PL \o AMP \o V_EQ \o id : id \in Ids}

Link(host, path, q) == HTTPS \o host \o SLASH \o path \o q

Urls ==
    {Link(h, p, <<>>) : h \in Hosts, p \in Paths}
        \cup {Link(h, p, QMARK \o q) : h \in Hosts, p \in Paths, q \in QueryStrings}

(***************************************************************************)
(* Transcript segments                                                     *)
(***************************************************************************)
HELLO == <<"h", "e", "l", "l", "o">>
X == <<"x">>
TWO_LINES == <<"a", "\n", "b">>

Texts == {HELLO, X, TWO_LINES}

\* whole seconds
Times == {0, 61, 125, 130, 6005}

\* caption entries carry start and text, Whisper segments start, end and text
CaptionEntries == [start : Times, text : Texts]
WhisperSegments == {g \in [start : Times, end : Times, text : Texts] : g.start <= g.end}

NonDecreasing(t) == \A i \in 1..(Len(t) - 1) : t[i].start <= t[i + 1].start

CaptionTranscripts(n) == {t \in SeqsUpTo(CaptionEntries, n) : NonDecreasing(t)}
WhisperTranscripts(n) == {t \in SeqsUpTo(WhisperSegments, n) : NonDecreasing(t)}

TextsOf(t) == [i \in 1..Len(t) |-> t[i].text]

\* verbose_json responses: the service returns text and segments side by side
WhisperResponses(n) ==
    {[text |-> x, segments |-> t] :
        x \in Texts \cup {<<>>, HELLO \o SPACE \o X}, t \in WhisperTranscripts(n)}

(***************************************************************************)
(* format_transcript                                                       *)
(***************************************************************************)
Digits == <<"0", "1", "2", "3", "4", "5", "6", "7", "8", "9">>

\* str(n) for n >= 0
RECURSIVE Decimal(_)
Decimal(n) ==
    IF n < 10 THEN <<Digits[n + 1]>>
    ELSE Decimal(n \div 10) \o <<Digits[(n % 10) + 1]>>

\* variant: f"{n:d}", no zero fill
Format02d_NoPad(n) == Decimal(n)

\* f"{n:02d}": zero-fill on the left up to width 2
Format02d(n) ==
    LET d == Decimal(n)
    IN [i \in 1..(IF Len(d) < 2 THEN 2 - Len(d) ELSE 0) |-> "0"] \o d

\* f"{int(t // 60):02d}:{int(t % 60):02d}"
Stamp(t) == Format02d(t \div 60) \o <<":">> \o Format02d(t % 60)

FormatEntry(entry) ==
    IF "start" \in DOMAIN entry /\ "end" \in DOMAIN entry
    THEN <<"[">> \o Stamp(entry.start) \o <<" ", "-", " ">> \o Stamp(entry.end)
             \o <<"]", " ">> \o entry.text \o NEWLINE
    ELSE <<"[">> \o Stamp(entry.start) \o <<"]", " ">> \o entry.text \o NEWLINE

\* the loop of format_transcript: formatted += ... for each entry in order
RECURSIVE FormatLoop(_, _)
FormatLoop(formatted, entries) ==
    IF Len(entries) = 0 THEN formatted
    ELSE FormatLoop(formatted \o FormatEntry(entries[1]), Tail(entries))

format_transcript(raw) == FormatLoop(<<>>, raw)

(***************************************************************************)
(* Values the variables have before the code that sets them ran            *)
(***************************************************************************)
NoTranscript ==
    [kind |-> "none", full_text |-> <<>>, raw |-> <<>>, prefix |-> "", cause |-> ""]

Fresh ==
    /\ cookies_file = None
    /\ files = {}
    /\ video_id = NotCalled
    /\ calls = <<>>
    /\ gt = NoTranscript
    /\ transcript_text = <<>>
    /\ raw_transcript = <<>>
    /\ formatted_transcript = <<>>
    /\ requests = <<>>
    /\ received = <<>>
    /\ summary = <<>>
    /\ summary_placeholder = <<>>
    /\ messages = <<>>
    /\ outcome = None

NoWidgets ==
    /\ cookies_upload = FALSE
    /\ fallback = FALSE
    /\ generate_summary_option = FALSE
    /\ custom_prompt = <<>>

Message(kind, text, cause) == [kind |-> kind, text |-> text, cause |-> cause]

(***************************************************************************)
(* get_video_id applied to every URL shape                                 *)
(***************************************************************************)
InitGetVideoId ==
    /\ pc = "call_get_video_id"
    /\ video_url \in Urls
    /\ NoWidgets
    /\ Fresh

CallGetVideoId ==
    /\ pc = "call_get_video_id"
    /\ video_id' = get_video_id(video_url)
    /\ messages' = IF video_id'.warned
                   THEN Append(messages, Message("warning", "Playlists are not supported. Please provide a single video link.", ""))
                   ELSE messages
    /\ pc' = "returned"
    /\ UNCHANGED <<video_url, cookies_upload, fallback, generate_summary_option,
                   custom_prompt, cookies_file, files, calls, gt, transcript_text,
                   raw_transcript, formatted_transcript, requests, received,
                   summary, summary_placeholder, outcome>>

NextGetVideoId == CallGetVideoId

SpecGetVideoId == InitGetVideoId /\ [][NextGetVideoId]_vars

(***************************************************************************)
(* format_transcript applied to caption and Whisper transcripts            *)
(***************************************************************************)
InitFormat ==
    /\ pc = "call_format_transcript"
    /\ video_url = <<>>
    /\ NoWidgets
    /\ cookies_file = None
    /\ files = {}
    /\ video_id = NotCalled
    /\ calls = <<>>
    /\ gt = NoTranscript
    /\ transcript_text = <<>>
    /\ raw_transcript \in CaptionTranscripts(MaxSegs) \cup WhisperTranscripts(MaxSegs)
    /\ formatted_transcript = <<>>
    /\ requests = <<>>
    /\ received = <<>>
    /\ summary = <<>>
    /\ summary_placeholder = <<>>
    /\ messages = <<>>
    /\ outcome = None

CallFormat ==
    /\ pc = "call_format_transcript"
    /\ formatted_transcript' = format_transcript(raw_transcript)
    /\ pc' = "returned"
    /\ UNCHANGED <<video_url, cookies_upload, fallback, generate_summary_option,
                   custom_prompt, cookies_file, files, video_id, calls, gt,
                   transcript_text, raw_transcript, requests, received, summary,
                   summary_placeholder, messages, outcome>>

NextFormat == CallFormat

SpecFormat == InitFormat /\ [][NextFormat]_vars

(***************************************************************************)
(* get_transcript                                                          *)
(***************************************************************************)
AUDIO_MP3 == "audio.mp3"

FetchCauses == {"TranscriptsDisabled", "NoTranscriptFound"}
DownloadCauses == {"DownloadError"}
TranscribeCauses == {"APIError"}

\* one entry of the log of external invocations: result is "ok" or the error
\* raised, value what the service returned
Call(fn, result, value) == [fn |-> fn, result |-> result, value |-> value]

GtReturn(full_text, raw) ==
    [kind |-> "return", full_text |-> full_text, raw |-> raw, prefix |-> "", cause |-> ""]

\* raise ValueError(f"{prefix}{str(cause)}")
GtRaise(prefix, cause) ==
    [kind |-> "raise", full_text |-> <<>>, raw |-> <<>>, prefix |-> prefix, cause |-> cause]

\* variant: "".join instead of " ".join
FetchOk_NoSeparator(captions) ==
    /\ pc = "fetch"
    /\ \E transcript \in captions :
           /\ calls' = Append(calls, Call("fetch", "ok", transcript))
           /\ gt' = GtReturn(Join(<<>>, TextsOf(transcript)), transcript)
    /\ pc' = "gt_return"
    /\ UNCHANGED <<video_url, cookies_upload, fallback, generate_summary_option,
                   custom_prompt, cookies_file, files, video_id, transcript_text,
                   raw_transcript, formatted_transcript, requests, received,
                   summary, summary_placeholder, messages, outcome>>

\* lines 56-60: api.fetch succeeds
FetchOk(captions) ==
    /\ pc = "fetch"
    /\ \E transcript \in captions :
           /\ calls' = Append(calls, Call("fetch", "ok", transcript))
           /\ gt' = GtReturn(Join(SPACE, TextsOf(transcript)), transcript)
    /\ pc' = "gt_return"
    /\ UNCHANGED <<video_url, cookies_upload, fallback, generate_summary_option,
                   custom_prompt, cookies_file, files, video_id, transcript_text,
                   raw_transcript, formatted_transcript, requests, received,
                   summary, summary_placeholder, messages, outcome>>

\* variant: the fallback flag is not consulted
FetchFail_IgnoresFlag ==
    /\ pc = "fetch"
    /\ \E e \in FetchCauses :
         /\ calls' = Append(calls, Call("fetch", e, <<>>))
         /\ IF video_url # <<>>
            THEN /\ messages' = Append(messages, Message("info", "No subtitles available. Falling back to audio transcription using Groq Whisper...", ""))
                 /\ pc' = "download"
                 /\ gt' = gt
            ELSE /\ gt' = GtRaise("Could not fetch transcript: ", e)
                 /\ pc' = "gt_raise"
                 /\ messages' = messages
    /\ UNCHANGED <<video_url, cookies_upload, fallback, generate_summary_option,
                   custom_prompt, cookies_file, files, video_id, transcript_text,
                   raw_transcript, formatted_transcript, requests, received,
                   summary, summary_placeholder, outcome>>

\* lines 61-63 and 79-80: api.fetch raises e
FetchFail ==
    /\ pc = "fetch"
    /\ \E e \in FetchCauses :
         /\ calls' = Append(calls, Call("fetch", e, <<>>))
         /\ IF fallback /\ video_url # <<>>
            THEN /\ messages' = Append(messages, Message("info", "No subtitles available. Falling back to audio transcription using Groq Whisper...", ""))
                 /\ pc' = "download"
                 /\ gt' = gt
            ELSE /\ gt' = GtRaise("Could not fetch transcript: ", e)
                 /\ pc' = "gt_raise"
                 /\ messages' = messages
    /\ UNCHANGED <<video_url, cookies_upload, fallback, generate_summary_option,
                   custom_prompt, cookies_file, files, video_id, transcript_text,
                   raw_transcript, formatted_transcript, requests, received,
                   summary, summary_placeholder, outcome>>

\* line 65, download_audio returns 'audio.mp3'
DownloadOk ==
    /\ pc = "download"
    /\ calls' = Append(calls, Call("download_audio", "ok", <<>>))
    /\ files' = files \cup {AUDIO_MP3}
    /\ pc' = "transcribe"
    /\ UNCHANGED <<video_url, cookies_upload, fallback, generate_summary_option,
                   custom_prompt, cookies_file, video_id, gt, transcript_text,
                   raw_transcript, formatted_transcript, requests, received,
                   summary, summary_placeholder, messages, outcome>>

\* variant: the failure is swallowed and the transcription is attempted
DownloadFail_FallsThrough ==
    /\ pc = "download"
    /\ \E download_e \in DownloadCauses :
           /\ calls' = Append(calls, Call("download_audio", download_e, <<>>))
           /\ gt' = gt
    /\ pc' = "transcribe"
    /\ UNCHANGED <<video_url, cookies_upload, fallback, generate_summary_option,
                   custom_prompt, cookies_file, files, video_id, transcript_text,
                   raw_transcript, formatted_transcript, requests, received,
                   summary, summary_placeholder, messages, outcome>>

\* line 65 raises, lines 77-78
DownloadFail ==
    /\ pc = "download"
    /\ \E download_e \in DownloadCauses :
           /\ calls' = Append(calls, Call("download_audio", download_e, <<>>))
           /\ gt' = GtRaise("Failed to download audio for transcription: ", download_e)
    /\ pc' = "gt_raise"
    /\ UNCHANGED <<video_url, cookies_upload, fallback, generate_summary_option,
                   custom_prompt, cookies_file, files, video_id, transcript_text,
                   raw_transcript, formatted_transcript, requests, received,
                   summary, summary_placeholder, messages, outcome>>

\* lines 66-76: the transcription succeeds
TranscribeOk(responses) ==
    /\ pc = "transcribe"
    /\ \E transcription \in responses :
           /\ calls' = Append(calls, Call("transcribe", "ok", transcription))
           /\ gt' = GtReturn(transcription.text, transcription.segments)
    /\ files' = files \ {AUDIO_MP3}
    /\ pc' = "gt_return"
    /\ UNCHANGED <<video_url, cookies_upload, fallback, generate_summary_option,
                   custom_prompt, cookies_file, video_id, transcript_text,
                   raw_transcript, formatted_transcript, requests, received,
                   summary, summary_placeholder, messages, outcome>>

\* lines 66-72 raise, lines 77-78
TranscribeFail ==
    /\ pc = "transcribe"
    /\ \E download_e \in TranscribeCauses :
           /\ calls' = Append(calls, Call("transcribe", download_e, <<>>))
           /\ gt' = GtRaise("Failed to download audio for transcription: ", download_e)
    /\ pc' = "gt_raise"
    /\ UNCHANGED <<video_url, cookies_upload, fallback, generate_summary_option,
                   custom_prompt, cookies_file, files, video_id, transcript_text,
                   raw_transcript, formatted_transcript, requests, received,
                   summary, summary_placeholder, messages, outcome>>

(***************************************************************************)
(* One call of get_transcript, for every fallback / video_url combination  *)
(***************************************************************************)
WATCH_URL == Link(YOUTUBE_COM, WATCH, QMARK \o V_EQ \o <<"a", "b">>)

InitGetTranscript ==
    /\ pc = "fetch"
    /\ video_url \in {<<>>, WATCH_URL}
    /\ fallback \in BOOLEAN
    /\ cookies_upload = FALSE
    /\ generate_summary_option = FALSE
    /\ custom_prompt = <<>>
    /\ Fresh

CallCaptions == CaptionTranscripts(MaxSegs)
CallResponses == WhisperResponses(MaxSegs)

CallFetchOk == FetchOk(CallCaptions)
CallTranscribeOk == TranscribeOk(CallResponses)

NextGetTranscript ==
    \/ CallFetchOk
    \/ FetchFail
    \/ DownloadOk
    \/ DownloadFail
    \/ CallTranscribeOk
    \/ TranscribeFail

SpecGetTranscript == InitGetTranscript /\ [][NextGetTranscript]_vars

(***************************************************************************)
(* The "Process Video" handler                                             *)
(***************************************************************************)
COOKIES_TMP == "cookies.tmp"

TIP_403 == "Tip: For 403 errors, try uploading a cookies.txt file from your browser or using a proxy. Alternatively, run the app locally."
TIP_UNEXPECTED == "If the error persists, ensure the video has public access, try cookies/proxy, or verify yt-dlp compatibility."

\* lines 202-204
OnValueError(text, cause) ==
    Append(Append(messages, Message("error", text, cause)), Message("info", TIP_403, ""))

\* lines 205-207
OnException(cause) ==
    Append(Append(messages, Message("error", "An unexpected error occurred: ", cause)),
           Message("info", TIP_UNEXPECTED, ""))

\* lines 200-201
Unlinked == IF cookies_file # None THEN files \ {cookies_file} ELSE files

\* lines 157-163 and 208-209
Press ==
    /\ pc = "idle"
    /\ IF video_url # <<>>
       THEN /\ cookies_file' = IF cookies_upload THEN COOKIES_TMP ELSE None
            /\ files' = IF cookies_upload THEN files \cup {COOKIES_TMP} ELSE files
            /\ pc' = "get_video_id"
            /\ UNCHANGED <<messages, outcome>>
       ELSE /\ messages' = Append(messages, Message("warning", "Please enter a valid YouTube video link.", ""))
            /\ pc' = "done"
            /\ outcome' = "no_url"
            /\ UNCHANGED <<cookies_file, files>>
    /\ UNCHANGED <<video_url, cookies_upload, fallback, generate_summary_option,
                   custom_prompt, video_id, calls, gt, transcript_text,
                   raw_transcript, formatted_transcript, requests, received,
                   summary, summary_placeholder>>

\* lines 167-169, with the except branch of lines 202-204
ExtractVideoId ==
    /\ pc = "get_video_id"
    /\ video_id' = get_video_id(video_url)
    /\ IF video_id'.kind = "raise"
       THEN /\ messages' = OnValueError("Invalid YouTube URL", "")
            /\ pc' = "done"
            /\ outcome' = "error"
       ELSE IF video_id'.kind = "none" \/ video_id'.value = <<>>
       THEN \* st.stop()
            /\ messages' = IF video_id'.warned
                           THEN Append(messages, Message("warning", "Playlists are not supported. Please provide a single video link.", ""))
                           ELSE messages
            /\ pc' = "done"
            /\ outcome' = "stopped"
       ELSE /\ pc' = "fetch"
            /\ UNCHANGED <<messages, outcome>>
    /\ UNCHANGED <<video_url, cookies_upload, fallback, generate_summary_option,
                   custom_prompt, cookies_file, files, calls, gt, transcript_text,
                   raw_transcript, formatted_transcript, requests, received,
                   summary, summary_placeholder>>

\* lines 170-188 and, when no summary is wanted, 200-201
ShowTranscript ==
    /\ pc = "gt_return"
    /\ transcript_text' = gt.full_text
    /\ raw_transcript' = gt.raw
    /\ formatted_transcript' = format_transcript(gt.raw)
    /\ messages' = Append(messages, Message("success", "Transcript obtained successfully!", ""))
    /\ IF generate_summary_option
       THEN /\ pc' = "create_completion"
            /\ UNCHANGED <<files, outcome>>
       ELSE /\ files' = Unlinked
            /\ pc' = "done"
            /\ outcome' = "ok"
    /\ UNCHANGED <<video_url, cookies_upload, fallback, generate_summary_option,
                   custom_prompt, cookies_file, video_id, calls, gt, requests,
                   received, summary, summary_placeholder>>

\* get_transcript raised ValueError: lines 202-204
TranscriptError ==
    /\ pc = "gt_raise"
    /\ messages' = OnValueError(gt.prefix, gt.cause)
    /\ pc' = "done"
    /\ outcome' = "error"
    /\ UNCHANGED <<video_url, cookies_upload, fallback, generate_summary_option,
                   custom_prompt, cookies_file, files, video_id, calls, gt,
                   transcript_text, raw_transcript, formatted_transcript,
                   requests, received, summary, summary_placeholder>>

(***************************************************************************)
(* generate_summary                                                        *)
(***************************************************************************)
\* stands for the block glyph of " ▌"
CURSOR == <<" ", "#">>

GenerationCauses == {"APIError"}

\* chunk.choices[0].delta.content: a string, or None (null)
Deltas ==
    {[null |-> TRUE, content |-> <<>>],
     [null |-> FALSE, content |-> <<"s">>],
     [null |-> FALSE, content |-> <<"u", "m">>]}

\* content or ""
OrEmpty(delta) == IF delta.null THEN <<>> ELSE delta.content

\* lines 97-114: the request is accepted and the stream opens
CreateCompletionOk ==
    /\ pc = "create_completion"
    /\ requests' = Append(requests, custom_prompt \o SPACE \o transcript_text)
    /\ summary' = <<>>
    /\ summary_placeholder' = <<>>
    /\ pc' = "stream"
    /\ UNCHANGED <<video_url, cookies_upload, fallback, generate_summary_option,
                   custom_prompt, cookies_file, files, video_id, calls, gt,
                   transcript_text, raw_transcript, formatted_transcript,
                   received, messages, outcome>>

\* lines 97-111 raise, lines 205-207
CreateCompletionFail ==
    /\ pc = "create_completion"
    /\ requests' = Append(requests, custom_prompt \o SPACE \o transcript_text)
    /\ \E e \in GenerationCauses : messages' = OnException(e)
    /\ pc' = "done"
    /\ outcome' = "error"
    /\ UNCHANGED <<video_url, cookies_upload, fallback, generate_summary_option,
                   custom_prompt, cookies_file, files, video_id, calls, gt,
                   transcript_text, raw_transcript, formatted_transcript,
                   received, summary, summary_placeholder>>

\* variant: summary = content instead of summary += content
StreamChunk_Overwrite ==
    /\ pc = "stream"
    /\ Len(received) < MaxChunks
    /\ \E delta \in Deltas :
           /\ received' = Append(received, delta)
           /\ summary' = OrEmpty(delta)
    /\ summary_placeholder' = summary' \o CURSOR
    /\ UNCHANGED <<pc, video_url, cookies_upload, fallback, generate_summary_option,
                   custom_prompt, cookies_file, files, video_id, calls, gt,
                   transcript_text, raw_transcript, formatted_transcript,
                   requests, messages, outcome>>

\* lines 115-118: one chunk arrives
StreamChunk ==
    /\ pc = "stream"
    /\ Len(received) < MaxChunks
    /\ \E delta \in Deltas :
           /\ received' = Append(received, delta)
           /\ summary' = summary \o OrEmpty(delta)
    /\ summary_placeholder' = summary' \o CURSOR
    /\ UNCHANGED <<pc, video_url, cookies_upload, fallback, generate_summary_option,
                   custom_prompt, cookies_file, files, video_id, calls, gt,
                   transcript_text, raw_transcript, formatted_transcript,
                   requests, messages, outcome>>

\* line 115 raises mid-stream, lines 205-207
StreamFail ==
    /\ pc = "stream"
    /\ \E e \in GenerationCauses : messages' = OnException(e)
    /\ pc' = "done"
    /\ outcome' = "error"
    /\ UNCHANGED <<video_url, cookies_upload, fallback, generate_summary_option,
                   custom_prompt, cookies_file, files, video_id, calls, gt,
                   transcript_text, raw_transcript, formatted_transcript,
                   requests, received, summary, summary_placeholder>>

\* lines 119-120, 190-201: the stream is exhausted
StreamEnd ==
    /\ pc = "stream"
    /\ summary_placeholder' = summary
    /\ messages' = Append(messages, Message("summary", "AI-Generated Summary", ""))
    /\ files' = Unlinked
    /\ pc' = "done"
    /\ outcome' = "ok"
    /\ UNCHANGED <<video_url, cookies_upload, fallback, generate_summary_option,
                   custom_prompt, cookies_file, video_id, calls, gt,
                   transcript_text, raw_transcript, formatted_transcript,
                   requests, received, summary>>

(***************************************************************************)
(* One run of the script with the button pressed                           *)
(***************************************************************************)
SUMMARIZE == <<"S", "u", "m", ":">>

RunUrls ==
    {<<>>,
     Link(YOUTU_BE, <<"a", "b">>, <<>>),
     Link(YOUTU_BE, <<>>, <<>>),
     WATCH_URL,
     Link(YOUTUBE_COM, PLAYLIST, QMARK \o LIST_PL),
     Link(YOUTUBE_COM, WATCH, <<>>),
     Link(VIMEO_COM, <<"a", "b">>, <<>>)}

Init ==
    /\ pc = "idle"
    /\ video_url \in RunUrls
    /\ cookies_upload \in BOOLEAN
    /\ fallback \in BOOLEAN
    /\ generate_summary_option \in BOOLEAN
    /\ custom_prompt \in {SUMMARIZE, <<>>}
    /\ Fresh

RunCaptions == CaptionTranscripts(MaxRunSegs)
RunResponses == WhisperResponses(MaxRunSegs)

RunFetchOk == FetchOk(RunCaptions)
RunTranscribeOk == TranscribeOk(RunResponses)

Next ==
    \/ Press
    \/ ExtractVideoId
    \/ RunFetchOk
    \/ FetchFail
    \/ DownloadOk
    \/ DownloadFail
    \/ RunTranscribeOk
    \/ TranscribeFail
    \/ ShowTranscript
    \/ TranscriptError
    \/ CreateCompletionOk
    \/ CreateCompletionFail
    \/ StreamChunk
    \/ StreamFail
    \/ StreamEnd

Spec == Init /\ [][Next]_vars

(***************************************************************************)
(* The summary stage of a run: the state after the caption transcript was  *)
(* shown with "Generate AI Summary" ticked, for every transcript and prompt *)
(***************************************************************************)
InitSummary ==
    /\ pc = "create_completion"
    /\ video_url = WATCH_URL
    /\ cookies_upload \in BOOLEAN
    /\ fallback \in BOOLEAN
    /\ generate_summary_option = TRUE
    /\ custom_prompt \in {SUMMARIZE, <<>>}
    /\ cookies_file = IF cookies_upload THEN COOKIES_TMP ELSE None
    /\ files = IF cookies_upload THEN {COOKIES_TMP} ELSE {}
    /\ video_id = get_video_id(video_url)
    /\ raw_transcript \in RunCaptions
    /\ calls = <<Call("fetch", "ok", raw_transcript)>>
    /\ gt = GtReturn(Join(SPACE, TextsOf(raw_transcript)), raw_transcript)
    /\ transcript_text = gt.full_text
    /\ formatted_transcript = format_transcript(raw_transcript)
    /\ requests = <<>>
    /\ received = <<>>
    /\ summary = <<>>
    /\ summary_placeholder = <<>>
    /\ messages = <<Message("success", "Transcript obtained successfully!", "")>>
    /\ outcome = None

NextSummary ==
    \/ CreateCompletionOk
    \/ CreateCompletionFail
    \/ StreamChunk
    \/ StreamFail
    \/ StreamEnd

SpecSummary == InitSummary /\ [][NextSummary]_vars

(***************************************************************************)
(* Properties of get_transcript                                            *)
(***************************************************************************)
GtDone == pc \in {"gt_return", "gt_raise"}

Fns == [i \in 1..Len(calls) |-> calls[i].fn]

Invoked(fn) == \E i \in 1..Len(calls) : calls[i].fn = fn

TookFallback == Len(calls) >= 1 /\ calls[1].result # "ok" /\ fallback /\ video_url # <<>>

\* C1: whenever a call of get_transcript that took the audio fallback has
\* returned or raised, audio.mp3 is not on disk.
C1_NoAudioLeft == (GtDone /\ TookFallback) => AUDIO_MP3 \notin files

\* C2: when the caption fetch fails and fallback is disabled, get_transcript
\* raises ValueError("Could not fetch transcript: <cause>") carrying the cause
\* the fetch raised, and neither download_audio nor the transcription service
\* is invoked at any point.
C2_NoFallbackNoDownload ==
    (~fallback /\ Len(calls) >= 1 /\ calls[1].result # "ok") =>
        /\ pc = "gt_raise"
        /\ gt = GtRaise("Could not fetch transcript: ", calls[1].result)
        /\ Fns = <<"fetch">>
        /\ ~Invoked("download_audio")
        /\ ~Invoked("transcribe")

C2_Witness ==
    /\ pc = "gt_raise"
    /\ ~fallback
    /\ video_url # <<>>
    /\ calls = <<Call("fetch", "TranscriptsDisabled", <<>>)>>

\* the flat text of the data model: the text fields in order, one space apart
RECURSIVE FlatText(_)
FlatText(segments) ==
    IF Len(segments) = 0 THEN <<>>
    ELSE IF Len(segments) = 1 THEN segments[1].text
    ELSE FlatText(SubSeq(segments, 1, Len(segments) - 1))
             \o <<" ">> \o segments[Len(segments)].text

\* C3 as stated: every returned transcript has full_text equal to the
\* space-joined text fields of the returned segments, on both paths.
C3_FlatTextIsJoin == pc = "gt_return" => gt.full_text = FlatText(gt.raw)

\* C3 amended: on the caption path full_text is the space-joined text fields
\* of the returned entries, which are the fetched entries; on the
\* transcription path full_text is the text field of the service's response
\* and the segments are its segments field, both passed through unchanged.
C3_FlatTextPerPath ==
    pc = "gt_return" =>
        IF Len(calls) = 1
        THEN /\ gt.raw = calls[1].value
             /\ gt.full_text = FlatText(gt.raw)
        ELSE /\ Len(calls) = 3
             /\ gt.full_text = calls[3].value.text
             /\ gt.raw = calls[3].value.segments

C3_Witness ==
    /\ pc = "gt_return"
    /\ Len(calls) = 1
    /\ Len(gt.raw) = 2
    /\ gt.full_text = HELLO \o <<" ">> \o X

\* C4: the external steps of one call happen in the order fetch, download,
\* transcribe, at most once each; the fetch is first and happens exactly
\* once; after a successful fetch the fetched transcript is returned and
\* nothing else is invoked; the download happens only after a failed fetch
\* with fallback enabled; the transcription only after a successful download;
\* a failed download ends the call with the ValueError and no further step.
C4_FixedOrder ==
    /\ Fns \in {<<>>, <<"fetch">>, <<"fetch", "download_audio">>,
                <<"fetch", "download_audio", "transcribe">>}
    /\ (pc # "fetch") <=> (Len(calls) >= 1)
    /\ (Len(calls) >= 1 /\ calls[1].result = "ok") =>
           /\ Len(calls) = 1
           /\ pc = "gt_return"
           /\ gt.kind = "return"
           /\ gt.raw = calls[1].value
    /\ Len(calls) >= 2 => TookFallback
    /\ Len(calls) >= 3 => calls[2].result = "ok"
    /\ (Len(calls) >= 2 /\ calls[2].result # "ok") =>
           /\ Len(calls) = 2
           /\ pc = "gt_raise"
           /\ gt.kind = "raise"
           /\ gt.cause = calls[2].result
    /\ GtDone => (gt.kind = "return" <=> pc = "gt_return")

C4_Witness ==
    /\ pc = "gt_return"
    /\ Fns = <<"fetch", "download_audio", "transcribe">>

(***************************************************************************)
(* Properties of get_video_id                                              *)
(***************************************************************************)
ExtractReturned == pc = "returned" /\ video_id.kind # "pending"

IsUnsupported(r) == r.kind = "none" /\ r.warned
IsVideoRef(r) == r.kind = "return"

PlaylistWarned ==
    \E i \in 1..Len(messages) :
        /\ messages[i].kind = "warning"
        /\ messages[i].text = "Playlists are not supported. Please provide a single video link."

\* C5 as stated: every URL that contains "list=" and no "v=" gives
\* Unsupported (the warning and no VideoRef), whether its host is of the
\* short-link or of the long-link form.
C5_PlaylistAnyHost ==
    (/\ ExtractReturned
     /\ Contains(video_url, YOUTU_BE) \/ Contains(video_url, YOUTUBE_COM)
     /\ Contains(video_url, LIST_EQ)
     /\ ~Contains(video_url, V_EQ)) =>
        IsUnsupported(video_id) /\ PlaylistWarned

\* C5 amended: every long-link URL (it contains "youtube.com" and not
\* "youtu.be") that contains "list=" and no "v=" gives Unsupported: the
\* playlist warning is shown and None is returned, never a VideoRef.
C5_PlaylistLongLink ==
    (/\ ExtractReturned
     /\ Contains(video_url, YOUTUBE_COM)
     /\ ~Contains(video_url, YOUTU_BE)
     /\ Contains(video_url, LIST_EQ)
     /\ ~Contains(video_url, V_EQ)) =>
        /\ IsUnsupported(video_id)
        /\ ~IsVideoRef(video_id)
        /\ PlaylistWarned

C5_Witness ==
    /\ ExtractReturned
    /\ video_url = Link(YOUTUBE_COM, PLAYLIST, QMARK \o LIST_PL)
    /\ IsUnsupported(video_id)

\* C7: for every short link https://youtu.be/{ID}, with or without a
\* "?query" after it, get_video_id returns exactly {ID}, whatever characters
\* the query string contains.
C7_ShortLinkId ==
    ExtractReturned =>
        \A id \in Ids :
            (\/ video_url = Link(YOUTU_BE, id, <<>>)
             \/ \E q \in QueryStrings : video_url = Link(YOUTU_BE, id, QMARK \o q)) =>
                video_id = Returned(id)

(***************************************************************************)
(* Properties of format_transcript                                         *)
(***************************************************************************)
\* n zero-padded to two digits
TwoDigits(n) ==
    IF n < 100 THEN <<Digits[(n \div 10) + 1], Digits[(n % 10) + 1]>> ELSE Decimal(n)

\* MM:SS of a time in whole seconds
MMSS(t) == TwoDigits(t \div 60) \o <<":">> \o TwoDigits(t % 60)

ExpectedLine(seg) ==
    IF "end" \in DOMAIN seg
    THEN <<"[">> \o MMSS(seg.start) \o <<" ", "-", " ">> \o MMSS(seg.end) \o <<"]", " ">>
             \o seg.text \o <<"\n">>
    ELSE <<"[">> \o MMSS(seg.start) \o <<"]", " ">> \o seg.text \o <<"\n">>

RECURSIVE ExpectedOutput(_)
ExpectedOutput(segments) ==
    IF Len(segments) = 0 THEN <<>>
    ELSE ExpectedOutput(SubSeq(segments, 1, Len(segments) - 1))
             \o ExpectedLine(segments[Len(segments)])

CountOf(c, str) == Cardinality({i \in 1..Len(str) : str[i] = c})

RECURSIVE NewlinesInTexts(_)
NewlinesInTexts(segments) ==
    IF Len(segments) = 0 THEN 0
    ELSE CountOf("\n", segments[1].text) + NewlinesInTexts(Tail(segments))

FormatReturned == pc = "returned" /\ video_url = <<>>

HELLO_AT_125 ==
    <<"[", "0", "2", ":", "0", "5", "]", " ", "h", "e", "l", "l", "o", "\n">>
X_FROM_61_TO_130 ==
    <<"[", "0", "1", ":", "0", "1", " ", "-", " ", "0", "2", ":", "1", "0", "]", " ", "x", "\n">>

C8_Examples ==
    /\ Len(raw_transcript) = 1 /\ DOMAIN raw_transcript[1] = {"start", "text"}
           /\ raw_transcript[1].start = 125 /\ raw_transcript[1].text = HELLO
       => formatted_transcript = HELLO_AT_125
    /\ Len(raw_transcript) = 1 /\ DOMAIN raw_transcript[1] = {"start", "end", "text"}
           /\ raw_transcript[1].start = 61 /\ raw_transcript[1].end = 130
           /\ raw_transcript[1].text = X
       => formatted_transcript = X_FROM_61_TO_130

\* C8 as stated: the output is the concatenation in order of one
\* newline-terminated "[MM:SS] text" or "[MM:SS - MM:SS] text" line per
\* segment, and the number of output lines equals the number of segments.
C8_OneLinePerSegment ==
    FormatReturned =>
        /\ formatted_transcript = ExpectedOutput(raw_transcript)
        /\ C8_Examples
        /\ CountOf("\n", formatted_transcript) = Len(raw_transcript)

\* C8 amended: the output is the concatenation in order of one
\* newline-terminated "[MM:SS] text" or "[MM:SS - MM:SS] text" rendering per
\* segment; the text is copied as it is, so the number of output lines is the
\* number of segments plus the number of newlines inside the segment texts,
\* and equals the number of segments when no text contains a newline.
C8_OneRenderingPerSegment ==
    FormatReturned =>
        /\ formatted_transcript = ExpectedOutput(raw_transcript)
        /\ C8_Examples
        /\ CountOf("\n", formatted_transcript)
               = Len(raw_transcript) + NewlinesInTexts(raw_transcript)
        /\ (\A i \in 1..Len(raw_transcript) : ~Contains(raw_transcript[i].text, <<"\n">>))
               => CountOf("\n", formatted_transcript) = Len(raw_transcript)

C8_Witness ==
    /\ FormatReturned
    /\ Len(raw_transcript) = 2
    /\ DOMAIN raw_transcript[1] = {"start", "end", "text"}
    /\ raw_transcript[1].start = 61
    /\ raw_transcript[1].end = 130
    /\ raw_transcript[2].start = 6005
    /\ formatted_transcript[1] = "["

(***************************************************************************)
(* Properties of the handler and of generate_summary                       *)
(***************************************************************************)
RunDone == pc = "done" /\ video_url # <<>>

ErrorShown == \E i \in 1..Len(messages) : messages[i].kind = "error"

\* neither a short link, nor a long link with "v=" or with "list="
OtherShape(url) ==
    /\ ~Contains(url, YOUTU_BE)
    /\ ~(Contains(url, YOUTUBE_COM) /\ (Contains(url, V_EQ) \/ Contains(url, LIST_EQ)))

\* C6: for every URL of any other shape get_video_id raises Invalid and the
\* run shows it as an error message.
C6_OtherShapeInvalid ==
    (RunDone /\ OtherShape(video_url)) => (video_id.kind = "raise" /\ ErrorShown)

\* C10: when a run in which a cookies file was uploaded has ended, the
\* temporary cookies file no longer exists.
C10_CookiesRemoved == (RunDone /\ cookies_upload) => COOKIES_TMP \notin files

RECURSIVE ConcatFragments(_)
ConcatFragments(deltas) ==
    IF Len(deltas) = 0 THEN <<>>
    ELSE ConcatFragments(SubSeq(deltas, 1, Len(deltas) - 1))
             \o (IF deltas[Len(deltas)].null THEN <<>> ELSE deltas[Len(deltas)].content)

IsPrefix(a, b) == Len(a) <= Len(b) /\ SubSeq(b, 1, Len(a)) = a

Requested == Len(requests) >= 1
Streaming == pc = "stream" /\ Len(received) >= 1
StreamEnded == pc = "done" /\ outcome = "ok" /\ Requested

\* exactly one request, with the prompt instruction + " " + flat text
C9_OneRequest ==
    /\ Len(requests) <= 1
    /\ (pc = "stream" \/ StreamEnded) => Requested
    /\ Requested => requests[1] = custom_prompt \o <<" ">> \o gt.full_text

\* the accumulated text is the concatenation of the fragments so far
C9_Accumulated == summary = ConcatFragments(received)

\* C9 as stated: the accumulated and the displayed text are, after each
\* fragment, the concatenation of the fragments received so far; each
\* accumulated value extends the previous one; one request is issued.
C9_DisplayedIsAccumulated ==
    [][/\ C9_OneRequest'
       /\ C9_Accumulated'
       /\ IsPrefix(summary, summary')
       /\ (Streaming \/ StreamEnded)' => (summary_placeholder = ConcatFragments(received))'
      ]_vars

\* C9 amended: the accumulated text is, after each fragment, the
\* concatenation of the fragments received so far and extends the previous
\* value; while the stream is open the displayed text is the accumulated text
\* followed by the cursor mark, and once the stream has ended without failure
\* it is the accumulated text, which is the returned summary; one request is
\* issued, with the prompt instruction + " " + flat text.
C9_AppendOnly ==
    [][/\ C9_OneRequest'
       /\ C9_Accumulated'
       /\ IsPrefix(summary, summary')
       /\ Streaming' => (summary_placeholder = ConcatFragments(received) \o CURSOR)'
       /\ StreamEnded' => (summary_placeholder = ConcatFragments(received))'
      ]_vars

C9_Witness ==
    /\ StreamEnded
    /\ Len(received) = 2
    /\ received[1].content = <<"s">>
    /\ received[2].content = <<"u", "m">>
    /\ summary = <<"s", "u", "m">>
    /\ custom_prompt = SUMMARIZE

====
